---- MODULE Spec2Model ----
(***************************************************************************)
(* rustflake: a decentralized identifier generator (src/src/lib.rs).       *)
(*                                                                         *)
(* A Generator holds a 6-byte seed and two AtomicU64 cells (sequence,      *)
(* timestamp).  generate() reads the clock, fetch_max-es the timestamp,    *)
(* packs time | seed | sequence into 15 bytes and returns the URL-safe     *)
(* base64 text of the buffer.                                              *)
(*                                                                         *)
(* A u64 is modelled at its full width as a tuple of 8 bytes, most         *)
(* significant byte first, so that truncation to 48 and 24 bits, the       *)
(* wrap of fetch_add and the byte shifts of put_uint are computed as the   *)
(* code computes them.  A String is the tuple of its character codes.      *)
(***************************************************************************)
EXTENDS Integers, Sequences, FiniteSets, TLC

(* ------------------------------ bounds -------------------------------- *)

\* generate calls that are followed step by step
MaxCalls == 2
\* runs of back-to-back generate calls whose results are discarded
MaxBursts == 1
\* caller threads sharing the generators
NumThreads == 2

(* -------------------------- program constants ------------------------- *)

\* let mut flake_id = [0; 15];
FlakeLen == 15
\* seed: [u8; 6]
SeedLen == 6
\* put_uint(&mut flake_id, max, 0, 6)
TimePos == 0
TimeBytes == 6
\* byte_array[i + 6] = seed_array[i]
SeedPos == 6
\* put_uint(&mut flake_id, sequence, 12, 3)
SeqPos == 12
SeqBytes == 3
\* width of an AtomicU64 in bytes
U64Bytes == 8

Threads == 1..NumThreads
\* the thread that is alone in a single-threaded run
MainThread == { 1 }
\* Generator slots, and the one slot used when all threads share a Generator
Gens == { 1, 2 }
Shared == { 1 }

(* ------------------------------ u64 ----------------------------------- *)

Byte == 0..255

U64Zero == [i \in 1..U64Bytes |-> 0]
U64One == [i \in 1..U64Bytes |-> IF i = U64Bytes THEN 1 ELSE 0]

\* a < b on u64
U64Less(a, b) ==
  \E i \in 1..U64Bytes : a[i] < b[i] /\ \A j \in 1..(i - 1) : a[j] = b[j]

\* a cell that takes the value offered, as a plain store does
store_latest(a, b) == b

\* std::cmp::max(a, b); also the value fetch_max leaves in the cell
cmp_max(a, b) == IF U64Less(b, a) THEN a ELSE b

\* carry out of the bytes below position i when adding a and b
RECURSIVE carry_into(_, _, _)
carry_into(a, b, i) ==
  IF i = U64Bytes THEN 0
  ELSE (a[i + 1] + b[i + 1] + carry_into(a, b, i + 1)) \div 256

\* a + b on u64, wrapping at 2^64 (what AtomicU64::fetch_add stores)
wrapping_add(a, b) ==
  [i \in 1..U64Bytes |-> (a[i] + b[i] + carry_into(a, b, i)) % 256]

\* long_value >> bits; every shift the program makes is a whole number of
\* bytes (i * 8 with i < number_of_bytes <= 6)
shr(long_value, bits) ==
  [j \in 1..U64Bytes |->
     IF j - (bits \div 8) >= 1 THEN long_value[j - (bits \div 8)] ELSE 0]

\* value as u8: the low byte
as_u8(value) == value[U64Bytes]

(* ------------------------- packing the buffer ------------------------- *)

\* put_uint with the shift missing its "* 8" step forward: every byte is
\* taken one byte too high, so the low byte of the value is lost
RECURSIVE put_uint_hi_from(_, _, _, _, _)
put_uint_hi_from(byte_array, long_value, pos, number_of_bytes, i) ==
  IF i >= number_of_bytes THEN byte_array
  ELSE put_uint_hi_from(
         [byte_array EXCEPT ![(pos + number_of_bytes - i - 1) + 1] =
            as_u8(shr(long_value, (i + 1) * 8))],
         long_value, pos, number_of_bytes, i + 1)

put_uint_hi(byte_array, long_value, pos, number_of_bytes) ==
  put_uint_hi_from(byte_array, long_value, pos, number_of_bytes, 0)

\* put_uint writing the least significant byte first (index = pos + i)
RECURSIVE put_uint_le_from(_, _, _, _, _)
put_uint_le_from(byte_array, long_value, pos, number_of_bytes, i) ==
  IF i >= number_of_bytes THEN byte_array
  ELSE put_uint_le_from(
         [byte_array EXCEPT ![(pos + i) + 1] = as_u8(shr(long_value, i * 8))],
         long_value, pos, number_of_bytes, i + 1)

put_uint_le(byte_array, long_value, pos, number_of_bytes) ==
  put_uint_le_from(byte_array, long_value, pos, number_of_bytes, 0)

\* the loop of put_uint from iteration i on; byte_array is 0-indexed in the
\* code and 1-indexed here
RECURSIVE put_uint_from(_, _, _, _, _)
put_uint_from(byte_array, long_value, pos, number_of_bytes, i) ==
  IF i >= number_of_bytes THEN byte_array
  ELSE LET val == as_u8(shr(long_value, i * 8))
           index == pos + number_of_bytes - i - 1
       IN put_uint_from([byte_array EXCEPT ![index + 1] = val],
                        long_value, pos, number_of_bytes, i + 1)

\* put_uint that writes the largest value of the field when long_value
\* does not fit into number_of_bytes bytes
put_uint_saturating(byte_array, long_value, pos, number_of_bytes) ==
  IF \E k \in 1..(U64Bytes - number_of_bytes) : long_value[k] # 0
  THEN put_uint_from(byte_array, [k \in 1..U64Bytes |-> 255],
                     pos, number_of_bytes, 0)
  ELSE put_uint_from(byte_array, long_value, pos, number_of_bytes, 0)

put_uint(byte_array, long_value, pos, number_of_bytes) ==
  put_uint_from(byte_array, long_value, pos, number_of_bytes, 0)

\* copy_seed that stops one byte short of the seed's end
copy_seed_short(byte_array, seed_array) ==
  [k \in 1..Len(byte_array) |->
     IF k - 1 >= SeedPos /\ k - 1 < SeedPos + Len(seed_array) - 1
     THEN seed_array[k - SeedPos] ELSE byte_array[k]]

\* copy_seed that writes the seed back to front
copy_seed_reversed(byte_array, seed_array) ==
  [k \in 1..Len(byte_array) |->
     IF k - 1 >= SeedPos /\ k - 1 < SeedPos + Len(seed_array)
     THEN seed_array[Len(seed_array) + 1 - (k - SeedPos)] ELSE byte_array[k]]

\* for i in 0..seed_array.len() { byte_array[i + 6] = seed_array[i] }
copy_seed(byte_array, seed_array) ==
  [k \in 1..Len(byte_array) |->
     IF k - 1 >= SeedPos /\ k - 1 < SeedPos + Len(seed_array)
     THEN seed_array[k - SeedPos] ELSE byte_array[k]]

(* ------------------------ URL-safe base64 text ------------------------ *)

\* the standard alphabet: '+' and '/' in the last two places
STANDARD_ALPHABET ==
  [i \in 0..63 |->
     IF i < 26 THEN 65 + i
     ELSE IF i < 52 THEN 97 + (i - 26)
     ELSE IF i < 62 THEN 48 + (i - 52)
     ELSE IF i = 62 THEN 43 ELSE 47]

\* base64::URL_SAFE: the character code of each 6-bit value,
\* 'A'..'Z', 'a'..'z', '0'..'9', '-', '_'
URL_SAFE_ALPHABET ==
  [i \in 0..63 |->
     IF i < 26 THEN 65 + i
     ELSE IF i < 52 THEN 97 + (i - 26)
     ELSE IF i < 62 THEN 48 + (i - 52)
     ELSE IF i = 62 THEN 45 ELSE 95]

\* the padding character '='
PadChar == 61

\* the text of the bytes from position k on in alphabet A: 4 characters per
\* 3 bytes, the last group padded
RECURSIVE encode_from(_, _, _)
encode_from(bytes, k, A) ==
  LET n == Len(bytes) - k + 1
  IN IF n <= 0 THEN << >>
     ELSE IF n = 1 THEN
       << A[bytes[k] \div 4], A[(bytes[k] % 4) * 16], PadChar, PadChar >>
     ELSE IF n = 2 THEN
       << A[bytes[k] \div 4],
          A[(bytes[k] % 4) * 16 + bytes[k + 1] \div 16],
          A[(bytes[k + 1] % 16) * 4], PadChar >>
     ELSE
       << A[bytes[k] \div 4],
          A[(bytes[k] % 4) * 16 + bytes[k + 1] \div 16],
          A[(bytes[k + 1] % 16) * 4 + bytes[k + 2] \div 64],
          A[bytes[k + 2] % 64] >> \o encode_from(bytes, k + 3, A)

\* encoding with base64::STANDARD where URL_SAFE is meant
encode_config_standard(bytes) == encode_from(bytes, 1, STANDARD_ALPHABET)

\* base64::encode_config(&flake_id, base64::URL_SAFE)
encode_config(bytes) == encode_from(bytes, 1, URL_SAFE_ALPHABET)

\* the decode table of the alphabet: the 6-bit value of each character
\* code, -1 for a character outside the alphabet
URL_SAFE_DECODE ==
  [c \in 0..255 |->
     IF \E i \in 0..63 : URL_SAFE_ALPHABET[i] = c
     THEN CHOOSE i \in 0..63 : URL_SAFE_ALPHABET[i] = c
     ELSE -1]

\* the 6-bit value of a character
sextet_of(c) == URL_SAFE_DECODE[c]

\* the bytes of the 4-character group starting at position k
decode_group(text, k) ==
  LET a == sextet_of(text[k])
      b == sextet_of(text[k + 1])
      c == sextet_of(text[k + 2])
      d == sextet_of(text[k + 3])
  IN IF text[k + 2] = PadChar /\ text[k + 3] = PadChar
     THEN << a * 4 + b \div 16 >>
     ELSE IF text[k + 3] = PadChar
     THEN << a * 4 + b \div 16, (b % 16) * 16 + c \div 4 >>
     ELSE << a * 4 + b \div 16, (b % 16) * 16 + c \div 4, (c % 4) * 64 + d >>

RECURSIVE decode_from(_, _)
decode_from(text, k) ==
  IF k > Len(text) THEN << >>
  ELSE decode_group(text, k) \o decode_from(text, k + 4)

\* a text base64 accepts: whole groups, alphabet characters, padding only as
\* the last one or two characters
decodable(text) ==
  /\ Len(text) % 4 = 0
  /\ \A k \in 1..Len(text) :
       \/ sextet_of(text[k]) >= 0
       \/ /\ text[k] = PadChar
          /\ k >= Len(text) - 1
          /\ (k = Len(text) - 1 => text[Len(text)] = PadChar)

\* base64::decode_config(&text, base64::URL_SAFE): Ok(bytes) or Err
decode_config(text) ==
  IF decodable(text)
  THEN [is_ok |-> TRUE, bytes |-> decode_from(text, 1)]
  ELSE [is_ok |-> FALSE, bytes |-> << >>]

\* a < b as Rust compares two strings or two byte slices: by the first
\* position where they differ, a proper prefix being the smaller
LexLess(a, b) ==
  \/ /\ Len(a) < Len(b)
     /\ \A j \in 1..Len(a) : a[j] = b[j]
  \/ \E i \in 1..Len(a) :
       /\ i <= Len(b)
       /\ a[i] < b[i]
       /\ \A j \in 1..(i - 1) : a[j] = b[j]

(* ------------------------------ inputs -------------------------------- *)

\* seeds a caller hands to with_seed; they differ in their last byte only
SeedA == << 1, 2, 3, 4, 5, 6 >>
SeedB == << 1, 2, 3, 4, 5, 7 >>
Seeds == { SeedA, SeedB }

\* hardware addresses of the host's interfaces
LoopbackAddr == << 0, 0, 0, 0, 0, 0 >>
DownAddr == << 2, 66, 172, 17, 0, 9 >>
UpAddr == << 0, 255, 94, 0, 83, 254 >>

\* what interface.hardware_addr() returns: Ok(address) or Err
HwOk(address) == [is_ok |-> TRUE, bytes |-> address]
HwErr == [is_ok |-> FALSE, bytes |-> << >>]

\* results of interfaces::Interface::get_all(): an error; a host with only
\* a loopback interface; a host whose third interface is the first one
\* that is up and not loopback; and a host whose first interface that is up
\* and not loopback (a tunnel) has no hardware address to read
InterfaceResults ==
  { [is_ok |-> FALSE, vector |-> << >>],
    [is_ok |-> TRUE,
     vector |-> << [is_loopback |-> TRUE, is_up |-> TRUE,
                    hardware_addr |-> HwOk(LoopbackAddr)] >>],
    [is_ok |-> TRUE,
     vector |-> << [is_loopback |-> TRUE, is_up |-> TRUE,
                    hardware_addr |-> HwOk(LoopbackAddr)],
                   [is_loopback |-> FALSE, is_up |-> FALSE,
                    hardware_addr |-> HwOk(DownAddr)],
                   [is_loopback |-> FALSE, is_up |-> TRUE,
                    hardware_addr |-> HwOk(UpAddr)],
                   [is_loopback |-> FALSE, is_up |-> TRUE,
                    hardware_addr |-> HwOk(SeedA)] >>],
    [is_ok |-> TRUE,
     vector |-> << [is_loopback |-> TRUE, is_up |-> TRUE,
                    hardware_addr |-> HwOk(LoopbackAddr)],
                   [is_loopback |-> FALSE, is_up |-> TRUE,
                    hardware_addr |-> HwErr],
                   [is_loopback |-> FALSE, is_up |-> TRUE,
                    hardware_addr |-> HwOk(UpAddr)] >>] }

\* clock readings in milliseconds since the epoch: 1700001703987
\* (0x018BCFFF6833, November 2023), the millisecond after it, and the same
\* instant 2^48 ms later
ClockT0 == << 0, 0, 1, 139, 207, 255, 104, 51 >>
ClockT1 == << 0, 0, 1, 139, 207, 255, 104, 52 >>
ClockFar == << 0, 1, 1, 139, 207, 255, 104, 51 >>
Clocks == { ClockT0, ClockT1, ClockFar }

\* what now.duration_since(UNIX_EPOCH) returns: Ok(ms) or, for a clock set
\* before the epoch, Err
ClockResults ==
  { [is_ok |-> TRUE, ms |-> c] : c \in Clocks }
    \cup { [is_ok |-> FALSE, ms |-> U64Zero] }

\* lengths of the runs of back-to-back calls: one short of 2^24
BurstSizes == { 16777215 }
\* the largest clock reading during such a run
BurstClocks == { ClockT0 }

\* n as a u64, for 0 <= n < 2^31
U64Of(n) ==
  [i \in 1..U64Bytes |->
     IF i <= U64Bytes - 4 THEN 0 ELSE (n \div (256 ^ (U64Bytes - i))) % 256]

(* ---------------------------- construction ---------------------------- *)

\* the scan of the interface vector from position k on; the address of the
\* interface it stops at is unwrapped
RECURSIVE scan_interfaces(_, _)
scan_interfaces(vector, k) ==
  IF k > Len(vector)
  THEN [panicked |-> TRUE,
        message |-> "Can't find an suitable interface address",
        bytes |-> << >>]
  ELSE IF ~vector[k].is_loopback /\ vector[k].is_up
  THEN IF vector[k].hardware_addr.is_ok
       THEN [panicked |-> FALSE, message |-> "",
             bytes |-> vector[k].hardware_addr.bytes]
       ELSE [panicked |-> TRUE,
             message |-> "called Result::unwrap() on an Err value",
             bytes |-> << >>]
  ELSE scan_interfaces(vector, k + 1)

\* get_non_loopback_address() on a host whose enumeration returns
\* `interfaces`
get_non_loopback_address(interfaces) ==
  IF interfaces.is_ok
  THEN scan_interfaces(interfaces.vector, 1)
  ELSE [panicked |-> TRUE, message |-> "Error retrieving interfaces",
        bytes |-> << >>]

\* a constructor that starts the sequence at 1
with_seed_from_one(seed) ==
  [seed |-> seed, sequence |-> U64One, timestamp |-> U64Zero]

\* Generator::with_seed(seed)
with_seed(seed) ==
  [seed |-> seed, sequence |-> U64Zero, timestamp |-> U64Zero]

\* PartialEq that also compares the timestamp
eq_with_timestamp(self, other) ==
  /\ self.seed = other.seed
  /\ self.sequence = other.sequence
  /\ self.timestamp = other.timestamp

\* impl PartialEq for Generator
eq(self, other) ==
  /\ self.seed = other.seed
  /\ self.sequence = other.sequence

(* ------------------------------- state -------------------------------- *)

VARIABLES
  gen,       \* the constructed Generators: slot -> [seed, sequence, timestamp]
  built,     \* per constructed Generator, how it was constructed (ghost)
  nmax,      \* per slot, the fetch_max steps made so far (ghost)
  nadd,      \* per slot, the fetch_add steps made so far (ghost)
  pc,        \* per thread, its position in generate
  local,     \* per thread, the locals of its generate call
  history,   \* the completed generate calls, in order of return
  events,    \* calls started plus calls returned (ghost clock)
  bursts,    \* runs of discarded calls made so far
  aborted,   \* the message of the panic that ended construction, or ""
  enumerated,\* the interface enumeration the last new() saw, if any (ghost)
  seen       \* per slot, the clock values passed to fetch_max (ghost)

vars == << gen, built, nmax, nadd, pc, local, history, events, bursts,
           aborted, enumerated, seen >>

\* the locals of a thread that is in no call; `clock` holds the Result the
\* call read from the clock, once it has
NoLocals ==
  [self |-> 0, clock |-> << >>, now |-> U64Zero, previous |-> U64Zero,
   max |-> U64Zero, flake_id |-> << >>, started |-> 0, max_step |-> 0]

Init ==
  /\ gen = << >>
  /\ built = << >>
  /\ nmax = [g \in Gens |-> 0]
  /\ nadd = [g \in Gens |-> 0]
  /\ pc = [t \in Threads |-> "idle"]
  /\ local = [t \in Threads |-> NoLocals]
  /\ history = << >>
  /\ events = 0
  /\ bursts = 0
  /\ aborted = ""
  /\ enumerated = << >>
  /\ seen = [g \in Gens |-> {}]

\* the `interfaces` entry of `built` for a Generator built by with_seed,
\* which enumerates nothing
NotEnumerated == [is_ok |-> FALSE, vector |-> << >>]

\* Generator::with_seed(seed) into slot g; the slots fill in order
WithSeed(g, seed) ==
  /\ aborted = ""
  /\ g = Cardinality(DOMAIN gen) + 1
  /\ gen' = gen @@ (g :> with_seed(seed))
  /\ built' = built @@ (g :> [by |-> "with_seed", seed |-> seed,
                               interfaces |-> NotEnumerated])
  /\ UNCHANGED << nmax, nadd, pc, local, history, events, bursts, aborted,
                  enumerated, seen >>

\* Generator::new() into slot g, on a host whose interface enumeration
\* returns `interfaces`; a panic constructs nothing and ends the program,
\* which constructs its Generators on its main thread
New(g, interfaces) ==
  /\ aborted = ""
  /\ g = Cardinality(DOMAIN gen) + 1
  /\ LET address == get_non_loopback_address(interfaces)
     IN IF address.panicked
        THEN /\ aborted' = address.message
             /\ UNCHANGED << gen, built >>
        ELSE /\ gen' = gen @@ (g :> with_seed(address.bytes))
             /\ built' = built @@ (g :> [by |-> "new", seed |-> address.bytes,
                                          interfaces |-> interfaces])
             /\ UNCHANGED aborted
  /\ enumerated' = << interfaces >>
  /\ UNCHANGED << nmax, nadd, pc, local, history, events, bursts, seen >>

(* ------------------------------ generate ------------------------------ *)

InFlight == { t \in Threads : pc[t] \in { "timed", "packed" } }
Panicked == { t \in Threads : pc[t] = "panicked" }

\* the generate calls made so far: returned, in flight or panicked
CallsMade == Len(history) + Cardinality(InFlight) + Cardinality(Panicked)

\* a generate that takes its sequence value first and looks at the clock
\* result afterwards, so that a panicking call has consumed a value
ReadClockLate(t, g, clock) ==
  /\ aborted = ""
  /\ pc[t] = "idle"
  /\ \A u \in Threads : u < t => pc[u] # "idle"
  /\ g \in DOMAIN gen
  /\ CallsMade < MaxCalls
  /\ IF clock.is_ok
     THEN /\ pc' = [pc EXCEPT ![t] = "timed"]
          /\ local' = [local EXCEPT ![t] =
                         [NoLocals EXCEPT !.self = g, !.clock = << clock >>,
                                          !.now = clock.ms,
                                          !.started = events + 1]]
          /\ events' = events + 1
          /\ UNCHANGED << gen, nadd >>
     ELSE /\ pc' = [pc EXCEPT ![t] = "panicked"]
          /\ local' = [local EXCEPT ![t] =
                         [NoLocals EXCEPT !.self = g, !.clock = << clock >>]]
          /\ gen' = [gen EXCEPT ![g].sequence = wrapping_add(@, U64One)]
          /\ nadd' = [nadd EXCEPT ![g] = @ + 1]
          /\ UNCHANGED events
  /\ UNCHANGED << built, nmax, history, bursts, aborted, enumerated, seen >>

\* a clock before the epoch read as time zero instead of a panic
expect_or_zero(result) ==
  [panicked |-> FALSE, ms |-> IF result.is_ok THEN result.ms ELSE U64Zero]

\* now.duration_since(UNIX_EPOCH).expect("Time went backwards"), then
\* as_millis() as u64: the milliseconds of an Ok, a panic on an Err
expect(result) ==
  IF result.is_ok
  THEN [panicked |-> FALSE, ms |-> result.ms]
  ELSE [panicked |-> TRUE, ms |-> U64Zero]

\* lines 47-49: read the clock; a clock before the epoch panics the calling
\* thread ("Time went backwards"), which makes no further step.  Idle
\* threads are interchangeable: the lowest-numbered one takes the call
ReadClock(t, g, clock) ==
  /\ aborted = ""
  /\ pc[t] = "idle"
  /\ \A u \in Threads : u < t => pc[u] # "idle"
  /\ g \in DOMAIN gen
  /\ CallsMade < MaxCalls
  /\ LET since_epoch == expect(clock)
     IN IF ~since_epoch.panicked
        THEN /\ pc' = [pc EXCEPT ![t] = "timed"]
             /\ local' = [local EXCEPT ![t] =
                            [NoLocals EXCEPT !.self = g, !.clock = << clock >>,
                                             !.now = since_epoch.ms,
                                             !.started = events + 1]]
             /\ events' = events + 1
        ELSE /\ pc' = [pc EXCEPT ![t] = "panicked"]
             /\ local' = [local EXCEPT ![t] =
                            [NoLocals EXCEPT !.self = g, !.clock = << clock >>]]
             /\ UNCHANGED events
  /\ UNCHANGED << gen, built, nmax, nadd, history, bursts, aborted,
                  enumerated, seen >>

\* the effective time taken to be the clock reading alone
effective_time_now(previous_value, since_epoch_in_ms) == since_epoch_in_ms

\* let max = cmp::max(previous_value, since_epoch_in_ms)
effective_time(previous_value, since_epoch_in_ms) ==
  cmp_max(previous_value, since_epoch_in_ms)

\* lines 54-57: the buffer with the time and seed fields written
pack_time_seed(max, seed) ==
  copy_seed(put_uint([k \in 1..FlakeLen |-> 0], max, TimePos, TimeBytes), seed)

\* lines 50-57: fetch_max on the timestamp, one atomic read-modify-write,
\* then the caller's own packing of time and seed
FetchMax(t) ==
  /\ pc[t] = "timed"
  /\ LET g == local[t].self
         previous_value == gen[g].timestamp
         max == effective_time(previous_value, local[t].now)
     IN /\ gen' = [gen EXCEPT ![g].timestamp = cmp_max(@, local[t].now)]
        /\ local' = [local EXCEPT ![t].previous = previous_value,
                                  ![t].max = max,
                                  ![t].flake_id = pack_time_seed(max, gen[g].seed),
                                  ![t].max_step = nmax[g] + 1]
        /\ nmax' = [nmax EXCEPT ![g] = @ + 1]
        /\ seen' = [seen EXCEPT ![g] = @ \cup { local[t].now }]
  /\ pc' = [pc EXCEPT ![t] = "packed"]
  /\ UNCHANGED << built, nadd, history, events, bursts, aborted, enumerated >>

\* a fetch_add that stores back the value it read
fetch_add_lost(value, val) == value

\* a counter kept within the 24 bits of the sequence field
fetch_add_masked(value, val) ==
  [i \in 1..U64Bytes |->
     IF i <= U64Bytes - SeqBytes THEN 0 ELSE wrapping_add(value, val)[i]]

\* the value AtomicU64::fetch_add(val) leaves in a cell holding `value`
fetch_add(value, val) == wrapping_add(value, val)

\* a generate that hands out sequence values in the order of the watermark
\* updates: a call waits until every call that made its fetch_max earlier
\* has taken its sequence value
FetchAddInTurn(t) ==
  /\ pc[t] = "packed"
  /\ \A u \in Threads :
       (pc[u] = "packed" /\ local[u].self = local[t].self)
         => local[t].max_step <= local[u].max_step
  /\ LET g == local[t].self
         sequence == gen[g].sequence
         flake_id == put_uint(local[t].flake_id, sequence, SeqPos, SeqBytes)
     IN /\ gen' = [gen EXCEPT ![g].sequence = fetch_add(@, U64One)]
        /\ history' = Append(history,
             [self |-> g, thread |-> t, clock |-> local[t].clock[1],
              now |-> local[t].now,
              previous |-> local[t].previous, max |-> local[t].max,
              sequence |-> sequence, flake_id |-> flake_id,
              id |-> encode_config(flake_id),
              max_step |-> local[t].max_step, add_step |-> nadd[g] + 1,
              started |-> local[t].started, returned |-> events + 1])
        /\ nadd' = [nadd EXCEPT ![g] = @ + 1]
  /\ events' = events + 1
  /\ pc' = [pc EXCEPT ![t] = "idle"]
  /\ local' = [local EXCEPT ![t] = NoLocals]
  /\ UNCHANGED << built, nmax, bursts, aborted, enumerated, seen >>

\* lines 59-62: fetch_add on the sequence, one atomic read-modify-write,
\* then the sequence field, the encoding and the return
FetchAdd(t) ==
  /\ pc[t] = "packed"
  /\ LET g == local[t].self
         sequence == gen[g].sequence
         flake_id == put_uint(local[t].flake_id, sequence, SeqPos, SeqBytes)
     IN /\ gen' = [gen EXCEPT ![g].sequence = fetch_add(@, U64One)]
        /\ history' = Append(history,
             [self |-> g, thread |-> t, clock |-> local[t].clock[1],
              now |-> local[t].now,
              previous |-> local[t].previous, max |-> local[t].max,
              sequence |-> sequence, flake_id |-> flake_id,
              id |-> encode_config(flake_id),
              max_step |-> local[t].max_step, add_step |-> nadd[g] + 1,
              started |-> local[t].started, returned |-> events + 1])
        /\ nadd' = [nadd EXCEPT ![g] = @ + 1]
  /\ events' = events + 1
  /\ pc' = [pc EXCEPT ![t] = "idle"]
  /\ local' = [local EXCEPT ![t] = NoLocals]
  /\ UNCHANGED << built, nmax, bursts, aborted, enumerated, seen >>

\* n complete generate calls on Generator g made back to back by one
\* caller that discards the results (as the loop of bench_generator_100000
\* does), with no step of another caller in between; `clock` is the
\* largest reading among them
Burst(g, n, clock) ==
  /\ aborted = ""
  /\ g \in DOMAIN gen
  /\ bursts < MaxBursts
  /\ gen' = [gen EXCEPT ![g].timestamp = cmp_max(@, clock),
                        ![g].sequence = fetch_add(@, U64Of(n))]
  /\ nmax' = [nmax EXCEPT ![g] = @ + n]
  /\ nadd' = [nadd EXCEPT ![g] = @ + n]
  /\ seen' = [seen EXCEPT ![g] = @ \cup { clock }]
  /\ bursts' = bursts + 1
  /\ UNCHANGED << built, pc, local, history, events, aborted, enumerated >>

\* one Generator shared by all the threads
Next ==
  \/ \E g \in Shared, seed \in Seeds : WithSeed(g, seed)
  \/ \E g \in Shared, interfaces \in InterfaceResults : New(g, interfaces)
  \/ \E t \in Threads, g \in Shared, clock \in ClockResults :
       ReadClock(t, g, clock)
  \/ \E t \in Threads : FetchMax(t)
  \/ \E t \in Threads : FetchAdd(t)
  \/ \E g \in Shared, n \in BurstSizes, clock \in BurstClocks :
       Burst(g, n, clock)

Spec == Init /\ [][Next]_vars

\* the thread whose progress is followed: the last one, which starts a call
\* only while every other thread is in the middle of one or has panicked
Caller == NumThreads

\* the shared Generator called from the threads alone, each call taking its
\* steps one at a time
NextProgress ==
  \/ \E g \in Shared, seed \in Seeds : WithSeed(g, seed)
  \/ \E g \in Shared, interfaces \in InterfaceResults : New(g, interfaces)
  \/ \E t \in Threads, g \in Shared, clock \in ClockResults :
       ReadClock(t, g, clock)
  \/ \E t \in Threads : FetchMax(t)
  \/ \E t \in Threads : FetchAdd(t)

\* the shared Generator with a caller that keeps executing: its two atomic
\* steps are taken whenever they are possible, while the other threads may
\* stop for ever at any point of their calls
SpecProgress ==
  /\ Init /\ [][NextProgress]_vars
  /\ WF_vars(FetchMax(Caller))
  /\ WF_vars(FetchAdd(Caller))

\* two Generators in one process, called by a single thread
NextFleet ==
  \/ \E g \in Gens, seed \in Seeds : WithSeed(g, seed)
  \/ \E g \in Gens, interfaces \in InterfaceResults : New(g, interfaces)
  \/ \E t \in MainThread, g \in Gens, clock \in ClockResults :
       ReadClock(t, g, clock)
  \/ \E t \in MainThread : FetchMax(t)
  \/ \E t \in MainThread : FetchAdd(t)
  \/ \E g \in Gens, n \in BurstSizes, clock \in BurstClocks :
       Burst(g, n, clock)

SpecFleet == Init /\ [][NextFleet]_vars

(* ------------------------------ claims -------------------------------- *)

\* the completed calls, by their position in `history`
Calls == 1..Len(history)

\* the number of values of the 24-bit sequence field: 2^(8 * 3)
SeqFieldSize == 16777216

\* calls i and j were made on the same Generator
SameGenerator(i, j) == history[i].self = history[j].self

\* the fetch_add steps of calls i and j are a whole number of sequence-field
\* wraps apart
WrapsApart(i, j) ==
  (history[i].add_step - history[j].add_step) % SeqFieldSize = 0

\* call i returned before call j started
Before(i, j) == history[i].returned < history[j].started

\* calls i and j overlapped in time
Concurrent(i, j) == ~Before(i, j) /\ ~Before(j, i)

\* the bytes at 0-based positions pos .. pos + n - 1 of a buffer
Field(bytes, pos, n) == SubSeq(bytes, pos + 1, pos + n)

\* the low n bytes of a u64, most significant first: the big-endian
\* encoding of the value mod 2^(8n)
LowBytes(value, n) == SubSeq(value, U64Bytes - n + 1, U64Bytes)

\* C1 as stated: any two distinct calls to generate on the same Generator
\* return different identifier strings, whatever the number of calls and
\* the clock readings.
C1_AllIdsDistinct ==
  \A i, j \in Calls :
    (i # j /\ SameGenerator(i, j)) => history[i].id # history[j].id

\* C1 amended: two distinct calls to generate on the same Generator whose
\* fetch_add steps are not a multiple of 2^24 steps apart (in particular any
\* two calls among 2^24 consecutive ones) return different identifier strings.
C1_IdsDistinctWithinWrap ==
  \A i, j \in Calls :
    (i # j /\ SameGenerator(i, j) /\ ~WrapsApart(i, j))
      => history[i].id # history[j].id

\* two calls on one Generator embedded the same effective time and returned
\* different strings
C1_Witness ==
  \E i, j \in Calls :
    /\ i # j /\ SameGenerator(i, j) /\ ~WrapsApart(i, j)
    /\ history[i].max = history[j].max
    /\ history[i].id # history[j].id

\* all calls so far were made one after the other, each returning before
\* the next started, and none is in flight
SingleThreaded ==
  /\ InFlight = {}
  /\ bursts = 0
  /\ \A i, j \in Calls : i < j => Before(i, j)

\* C2: of two sequential single-threaded calls on one Generator, the one
\* that returned before the other started returned the lexically smaller
\* string.
C2_SequentialIdsIncrease ==
  SingleThreaded =>
    \A i, j \in Calls :
      (SameGenerator(i, j) /\ Before(i, j))
        => LexLess(history[i].id, history[j].id)

\* the sequence field carried by a returned string: bytes 12-14 of what it
\* decodes to
SequenceFieldOf(id) == Field(decode_config(id).bytes, SeqPos, SeqBytes)

\* C3 as stated: no two calls on one Generator obtain the same sequence
\* value from fetch_add, and the sequence fields in bytes 12-14 of their
\* results are distinct, for any number of callers.
C3_SequenceFieldsDistinct ==
  LET field == [i \in Calls |-> SequenceFieldOf(history[i].id)]
  IN \A i, j \in Calls :
       (i # j /\ SameGenerator(i, j))
         => /\ history[i].sequence # history[j].sequence
            /\ field[i] # field[j]

\* C3 amended: no two calls on one Generator obtain the same sequence value
\* from fetch_add under any interleaving, and the sequence fields in bytes
\* 12-14 of their results are distinct unless the two fetch_add steps are a
\* multiple of 2^24 steps apart.
C3_SequencesDistinct ==
  LET field == [i \in Calls |-> SequenceFieldOf(history[i].id)]
  IN \A i, j \in Calls :
       (i # j /\ SameGenerator(i, j))
         => /\ history[i].sequence # history[j].sequence
            /\ ~WrapsApart(i, j) => field[i] # field[j]

\* two calls that overlapped in time, on one Generator, have both returned
C3_Witness ==
  \E i, j \in Calls :
    /\ i # j /\ SameGenerator(i, j) /\ Concurrent(i, j)
    /\ history[i].thread # history[j].thread

\* C4: identifiers produced by Generators with different seeds differ,
\* whatever their clocks, watermarks and sequence counters.
C4_DifferentSeedsDifferentIds ==
  \A i, j \in Calls :
    gen[history[i].self].seed # gen[history[j].self].seed
      => history[i].id # history[j].id

\* two Generators with different seeds each returned an identifier built
\* from the same effective time and the same sequence value
C4_Witness ==
  \E i, j \in Calls :
    /\ gen[history[i].self].seed # gen[history[j].self].seed
    /\ history[i].max = history[j].max
    /\ history[i].sequence = history[j].sequence

\* the calls that have made their fetch_max step: the returned ones and
\* those in flight past it
Embedded ==
  { [self |-> history[i].self, now |-> history[i].now,
     max |-> history[i].max, max_step |-> history[i].max_step] : i \in Calls }
  \cup
  { [self |-> local[t].self, now |-> local[t].now,
     max |-> local[t].max, max_step |-> local[t].max_step] :
       t \in { u \in Threads : pc[u] = "packed" } }

\* C5: the effective time a call embeds is never less than the effective
\* time of a call whose fetch_max step came earlier on the same Generator.
C5_TimestampRatchet ==
  \A a, b \in Embedded :
    (a.self = b.self /\ a.max_step < b.max_step) => ~U64Less(b.max, a.max)

\* a call read a smaller clock value than a call whose fetch_max came
\* before its own
C5_Witness ==
  \E a, b \in Embedded :
    /\ a.self = b.self /\ a.max_step < b.max_step
    /\ U64Less(b.now, a.now)

\* C6: the buffer of every call is 15 bytes: the effective time mod 2^48
\* big-endian in bytes 0-5, the seed in bytes 6-11, the sequence value mod
\* 2^24 big-endian in bytes 12-14.
C6_FieldPacking ==
  \A i \in Calls :
    /\ Len(history[i].flake_id) = FlakeLen
    /\ Field(history[i].flake_id, TimePos, TimeBytes)
         = LowBytes(history[i].max, TimeBytes)
    /\ Field(history[i].flake_id, SeedPos, SeedLen)
         = built[history[i].self].seed
    /\ Field(history[i].flake_id, SeqPos, SeqBytes)
         = LowBytes(history[i].sequence, SeqBytes)

\* a call packed an effective time of 2^48 or more and a sequence value of
\* 2^24 or more
C6_Witness ==
  \E i \in Calls :
    /\ history[i].max[U64Bytes - TimeBytes] > 0
    /\ history[i].sequence[U64Bytes - SeqBytes] > 0

\* C7: for the buffers x and y of any two calls, x is byte-wise less than y
\* if and only if the text of x is lexically less than the text of y.
C7_EncodingPreservesOrder ==
  \A i, j \in Calls :
    LexLess(history[i].flake_id, history[j].flake_id)
      <=> LexLess(history[i].id, history[j].id)

\* C8: every returned string decodes under URL-safe base64, to exactly the
\* buffer generate packed.
C8_Decodable ==
  \A i \in Calls :
    LET decoded == decode_config(history[i].id)
    IN decoded.is_ok /\ decoded.bytes = history[i].flake_id

\* a returned string holds one of the two characters that set the URL-safe
\* alphabet apart, '-' or '_'
C8_Witness ==
  \E i \in Calls :
    \E k \in 1..Len(history[i].id) : history[i].id[k] \in { 45, 95 }

\* C9: a Generator on which no call has yet made a step has timestamp 0 and
\* sequence 0; its seed is the one handed to with_seed, or for new() the
\* address get_non_loopback_address returns.
C9_Construction ==
  \A g \in DOMAIN gen :
    /\ nmax[g] = 0 => gen[g].timestamp = U64Zero
    /\ nadd[g] = 0 => gen[g].sequence = U64Zero
    /\ gen[g].seed =
         IF built[g].by = "with_seed" THEN built[g].seed
         ELSE get_non_loopback_address(built[g].interfaces).bytes

\* a Generator built by with_seed and one built by new(), neither called yet
C9_Witness ==
  \E g, h \in DOMAIN gen :
    /\ built[g].by = "with_seed" /\ built[h].by = "new"
    /\ nmax[g] = 0 /\ nadd[g] = 0 /\ nmax[h] = 0 /\ nadd[h] = 0

\* C10: two Generators are equal exactly when they were given equal seeds
\* and the same number of fetch_add steps has been made on each; the
\* timestamp takes no part.
C10_Equality ==
  \A g, h \in DOMAIN gen :
    eq(gen[g], gen[h])
      <=> (built[g].seed = built[h].seed /\ nadd[g] = nadd[h])

\* two equal Generators whose timestamps differ
C10_Witness ==
  \E g, h \in DOMAIN gen :
    /\ eq(gen[g], gen[h])
    /\ gen[g].timestamp # gen[h].timestamp

\* C11 (fatal clock error): a generate call that reads a clock before the
\* epoch panics and returns nothing: the thread of every call that read an
\* Err is panicked, and every identifier returned stems from an Ok reading
\* and was built from that reading, never from a substitute for one.
C11_FatalClockError ==
  /\ \A t \in Threads :
       (local[t].clock # << >> /\ ~local[t].clock[1].is_ok)
         => pc[t] = "panicked"
  /\ \A i \in Calls :
       /\ history[i].clock.is_ok
       /\ history[i].now = history[i].clock.ms

\* a call has panicked on the clock after another call of the same
\* Generator returned an identifier
C11_Witness ==
  /\ Len(history) > 0
  /\ \E t \in Threads :
       /\ pc[t] = "panicked"
       /\ ~local[t].clock[1].is_ok
       /\ local[t].self = history[1].self

\* C12 (non-blocking progress): a generate call that got past the clock
\* returns, whatever the other callers do: with the caller taking its own
\* steps and every other thread free to stop in the middle of its call,
\* the caller's call always completes.
C12_NonBlockingProgress ==
  (pc[Caller] \in { "timed", "packed" }) ~> (pc[Caller] = "idle")

\* the caller's call has returned while a call that another thread started
\* earlier is still between its steps
C12_Witness ==
  \E i \in Calls, u \in Threads \ { Caller } :
    /\ history[i].thread = Caller
    /\ pc[u] \in { "timed", "packed" }
    /\ local[u].self = history[i].self
    /\ local[u].started < history[i].started

\* the positions of the interfaces that are up and not loopback
Eligible(vector) ==
  { k \in DOMAIN vector : vector[k].is_up /\ ~vector[k].is_loopback }

\* C13 (seed acquisition): new() takes as seed the hardware address of the
\* first interface, in enumeration order, that is up and not loopback,
\* whatever comes before it; it panics when no interface is up and not
\* loopback and when the enumeration is an Err.
C13_SeedAcquisition ==
  enumerated # << >> =>
    LET interfaces == enumerated[1]
        eligible == IF interfaces.is_ok THEN Eligible(interfaces.vector) ELSE {}
    IN IF eligible # {}
       THEN LET first == CHOOSE k \in eligible : \A j \in eligible : k <= j
                hardware_addr == interfaces.vector[first].hardware_addr
            IN /\ aborted = ""
               /\ \E g \in DOMAIN gen :
                    /\ built[g].by = "new"
                    /\ built[g].interfaces = interfaces
                    /\ gen[g].seed = hardware_addr.bytes
       ELSE aborted # ""

\* C14 (sequence counter): on every Generator the counter equals the
\* number of fetch_add steps made on it, and the call that made the k-th of
\* them obtained k - 1: the values handed out are 0, 1, 2, ... in step
\* order, with no gap, no repeat and no reset.
C14_SequenceCounter ==
  /\ \A g \in DOMAIN gen : gen[g].sequence = U64Of(nadd[g])
  /\ \A i \in Calls :
       /\ history[i].add_step \in 1..nadd[history[i].self]
       /\ history[i].sequence = U64Of(history[i].add_step - 1)
  /\ \A i, j \in Calls :
       (i # j /\ SameGenerator(i, j))
         => history[i].add_step # history[j].add_step

\* a call obtained a value beyond 2^24 on a Generator whose first value
\* went to another call
C14_Witness ==
  \E i, j \in Calls :
    /\ SameGenerator(i, j)
    /\ history[i].add_step = 1
    /\ history[j].add_step > SeqFieldSize
    /\ gen[history[j].self].sequence = U64Of(history[j].add_step)

\* the largest of a set of clock values and zero
MaxOf(values) ==
  CHOOSE m \in values \cup { U64Zero } : \A x \in values : ~U64Less(m, x)

\* the calls that have made their fetch_max, returned or not
Ratcheted ==
  { [self |-> history[i].self, now |-> history[i].now,
     previous |-> history[i].previous, max |-> history[i].max] : i \in Calls }
  \cup
  { [self |-> local[t].self, now |-> local[t].now,
     previous |-> local[t].previous, max |-> local[t].max] :
       t \in { u \in Threads : pc[u] = "packed" } }

\* C15 (watermark): the timestamp cell holds the largest clock value passed
\* to a fetch_max on the Generator so far, or 0 if there was none. A call
\* whose reading is not above the watermark it meets embeds that watermark,
\* not its reading, and leaves the cell as it was; a call with a larger
\* reading embeds the reading; the cell is never below what a call left.
C15_Watermark ==
  /\ \A g \in DOMAIN gen : gen[g].timestamp = MaxOf(seen[g])
  /\ \A c \in Ratcheted :
       /\ c.now \in seen[c.self]
       /\ ~U64Less(c.previous, c.now) => c.max = c.previous
       /\ U64Less(c.previous, c.now) => c.max = c.now
       /\ ~U64Less(gen[c.self].timestamp, c.max)

\* a returned call read a clock value below the watermark it met, and the
\* cell still holds that watermark
C15_Witness ==
  \E i \in Calls :
    /\ U64Less(history[i].now, history[i].previous)
    /\ history[i].max # history[i].now
    /\ gen[history[i].self].timestamp = history[i].previous

\* C16 (truncation without error): a sequence value of 2^24 or more and an
\* effective time of 2^48 or more are embedded modulo 2^24 and 2^48, so two
\* calls on one Generator whose sequence values agree modulo 2^24 and whose
\* effective times agree modulo 2^48 return the same identifier.
C16_Truncation ==
  \A i, j \in Calls :
    ( /\ SameGenerator(i, j)
      /\ LowBytes(history[i].sequence, SeqBytes)
           = LowBytes(history[j].sequence, SeqBytes)
      /\ LowBytes(history[i].max, TimeBytes)
           = LowBytes(history[j].max, TimeBytes) )
      => history[i].id = history[j].id

\* two calls returned the same identifier although their sequence values
\* are 2^24 apart and their effective times 2^48 apart
C16_Witness ==
  \E i, j \in Calls :
    /\ SameGenerator(i, j)
    /\ history[i].sequence = U64Zero
    /\ history[j].sequence = U64Of(SeqFieldSize)
    /\ history[i].max = ClockT0
    /\ history[j].max = ClockFar
    /\ history[i].id = history[j].id

\* C17 (seed frame): generate leaves the seed alone: whatever calls were
\* made, the seed of a Generator is the one it was constructed with, and
\* bytes 6-11 of every identifier it returned are that seed.
C17_SeedFrame ==
  /\ \A g \in DOMAIN gen : gen[g].seed = built[g].seed
  /\ \A i \in Calls :
       LET d == decode_config(history[i].id)
       IN /\ d.is_ok
          /\ Field(d.bytes, SeedPos, SeedLen) = built[history[i].self].seed

\* a Generator has returned two identifiers, its timestamp and its
\* sequence have both moved, and its seed is the constructed one
C17_Witness ==
  \E g \in DOMAIN gen :
    /\ Cardinality({ i \in Calls : history[i].self = g }) >= 2
    /\ gen[g].timestamp # U64Zero
    /\ gen[g].sequence # U64Zero
    /\ gen[g].seed = built[g].seed

\* C18 (concurrent ordering caveat): fetch_max and fetch_add are separate
\* steps, so the order of the sequence values is not bound to the order of
\* the watermark updates: whenever two calls on one Generator have both
\* made their fetch_max, the one that made it later can take its sequence
\* value first, and two returned calls whose orders differ overlapped.
C18_EitherOrder ==
  /\ \A x, y \in Threads :
       ( /\ pc[x] = "packed" /\ pc[y] = "packed"
         /\ local[x].self = local[y].self
         /\ local[x].max_step < local[y].max_step )
         => ENABLED FetchAdd(y)
  /\ \A i, j \in Calls :
       ( /\ SameGenerator(i, j)
         /\ history[i].max_step < history[j].max_step
         /\ U64Less(history[j].sequence, history[i].sequence) )
         => Concurrent(i, j)

\* X made its fetch_max before Y, both embedded the same effective time, X
\* obtained the larger sequence value, and the bytes of Y's identifier are
\* below those of X's
C18_Witness ==
  \E x, y \in Calls :
    /\ SameGenerator(x, y)
    /\ history[x].max_step < history[y].max_step
    /\ history[x].max = history[y].max
    /\ U64Less(history[y].sequence, history[x].sequence)
    /\ LexLess(history[y].flake_id, history[x].flake_id)

\* C19 (no state change on the fatal clock error): the step in which a
\* call panics on the clock changes neither the timestamp nor the sequence
\* of any Generator, makes no fetch_max and no fetch_add, and returns
\* nothing.
C19_PanicChangesNothing ==
  [][ (\E t \in Threads : pc[t] # "panicked" /\ pc'[t] = "panicked")
        => /\ gen' = gen
           /\ nmax' = nmax
           /\ nadd' = nadd
           /\ seen' = seen
           /\ history' = history ]_vars

\* a call has panicked on a Generator that returned one identifier, and
\* the Generator is as that one call left it: one fetch_max, one fetch_add,
\* the sequence at 1
C19_Witness ==
  \E t \in Threads :
    /\ pc[t] = "panicked"
    /\ Len(history) = 1
    /\ local[t].self = history[1].self
    /\ nmax[local[t].self] = 1
    /\ nadd[local[t].self] = 1
    /\ gen[local[t].self].sequence = U64One
    /\ gen[local[t].self].timestamp = history[1].max

====
